---- MODULE Spec2Model ----
(***************************************************************************)
(* The /vectorize request handler of backend/main.py: form validation,     *)
(* image decoding, binarization, polarity normalization, the hand-over to  *)
(* the vectorizer through the two fixed temp files, and the rewriting of   *)
(* the <svg> opening tag.                                                  *)
(*                                                                         *)
(* Rasters are records [rows, cols, chans, px] with px the row-major       *)
(* sequence of pixels; a colour pixel is a tuple <<b, g, r>> or            *)
(* <<b, g, r, a>>, a gray or binary pixel is a number in 0..255.  SVG text *)
(* is a sequence of tokens in which every '>' and every quote is a token   *)
(* of its own, so that the two regular expressions of the handler are      *)
(* matched exactly.                                                        *)
(***************************************************************************)
EXTENDS Integers, Sequences, FiniteSets, TLC

VARIABLES pc, req, worker, running, loc, temp_input, temp_output, resp,
          vtout, interfered, serial, arg, res

vars == <<pc, req, worker, running, loc, temp_input, temp_output, resp,
          vtout, interfered, serial, arg, res>>

(***************************************************************************)
(* Bounds of the model.                                                    *)
(***************************************************************************)
NumRequests == 2
NumWorkers == 2
MaxPixels == 2
MaxPolarityPixels == 10
MaxAttrs == 2

Requests == 1..NumRequests
Workers == 1..NumWorkers

(***************************************************************************)
(* Small arithmetic helpers.                                               *)
(***************************************************************************)
RECURSIVE SumSeq(_)
SumSeq(s) == IF s = <<>> THEN 0 ELSE Head(s) + SumSeq(Tail(s))

RECURSIVE CountSeq(_, _)
CountSeq(s, v) ==
    IF s = <<>> THEN 0
    ELSE (IF Head(s) = v THEN 1 ELSE 0) + CountSeq(Tail(s), v)

Clamp(i, lo, hi) == IF i < lo THEN lo ELSE IF i > hi THEN hi ELSE i

Abs(i) == IF i < 0 THEN 0 - i ELSE i

(***************************************************************************)
(* Rasters.                                                                *)
(***************************************************************************)
NoImage == [rows |-> 0, cols |-> 0, chans |-> 0, px |-> <<>>]

PixelAt(im, i, j) ==
    im.px[(Clamp(i, 1, im.rows) - 1) * im.cols + Clamp(j, 1, im.cols)]

Black == <<0, 0, 0>>
White == <<255, 255, 255>>
Red == <<0, 0, 255>>

(***************************************************************************)
(* cv2.imdecode(nparr, cv2.IMREAD_COLOR): an empty buffer raises, bytes    *)
(* that are no image decode to None, and an image always decodes to three  *)
(* channels: the alpha channel of the file is dropped, the colour stored   *)
(* under each pixel is kept.                                               *)
(***************************************************************************)
imdecode_raises(file) == file.kind = "empty"

imdecode(file) ==
    IF file.kind = "image"
    THEN [rows |-> file.rows, cols |-> file.cols, chans |-> 3,
          px |-> [k \in 1..Len(file.px) |-> SubSeq(file.px[k], 1, 3)]]
    ELSE NoImage

(***************************************************************************)
(* Lines 61-65: alpha < 128 becomes opaque white, then BGRA -> BGR.        *)
(***************************************************************************)
separate_alpha(im) ==
    IF im.chans = 4
    THEN [im EXCEPT !.chans = 3,
                    !.px = [k \in 1..Len(im.px) |->
                              IF im.px[k][4] < 128 THEN White
                              ELSE SubSeq(im.px[k], 1, 3)]]
    ELSE im

(***************************************************************************)
(* cv2.cvtColor(img, cv2.COLOR_BGR2GRAY) in 8-bit fixed point.             *)
(***************************************************************************)
BGR2GRAY(im) ==
    [im EXCEPT !.chans = 1,
               !.px = [k \in 1..Len(im.px) |->
                         (im.px[k][1] * 3735 + im.px[k][2] * 19235
                            + im.px[k][3] * 9798 + 16384) \div 32768]]

(***************************************************************************)
(* cv2.threshold(gray, t, 255, cv2.THRESH_BINARY).                         *)
(***************************************************************************)
threshold_binary(gray, t) ==
    [gray EXCEPT !.px = [k \in 1..Len(gray.px) |->
                           IF gray.px[k] > t THEN 255 ELSE 0]]

(***************************************************************************)
(* Otsu's threshold: the first gray level that maximizes the between-class *)
(* variance n0*n1*(mu0-mu1)^2, 0 when the histogram has a single class.    *)
(***************************************************************************)
Levels(gray) == {gray.px[k] : k \in 1..Len(gray.px)}

RECURSIVE SumLE(_, _)
SumLE(s, t) ==
    IF s = <<>> THEN 0
    ELSE (IF Head(s) <= t THEN Head(s) ELSE 0) + SumLE(Tail(s), t)

RECURSIVE CountLE(_, _)
CountLE(s, t) ==
    IF s = <<>> THEN 0
    ELSE (IF Head(s) <= t THEN 1 ELSE 0) + CountLE(Tail(s), t)

SigmaNum(gray, t) ==
    LET n0 == CountLE(gray.px, t)
        n1 == Len(gray.px) - n0
        s0 == SumLE(gray.px, t)
        s1 == SumSeq(gray.px) - s0
        d  == s0 * n1 - s1 * n0
    IN  d * d

SigmaDen(gray, t) ==
    LET n0 == CountLE(gray.px, t) IN n0 * (Len(gray.px) - n0)

OtsuLevel(gray) ==
    LET cand == {t \in Levels(gray) : SigmaDen(gray, t) > 0
                                      /\ SigmaNum(gray, t) > 0}
        best == {t \in cand : \A u \in cand :
                    SigmaNum(gray, t) * SigmaDen(gray, u)
                      >= SigmaNum(gray, u) * SigmaDen(gray, t)}
    IN  IF cand = {} THEN 0
        ELSE CHOOSE t \in best : \A u \in best : t <= u

otsu_threshold(gray) == threshold_binary(gray, OtsuLevel(gray))

(***************************************************************************)
(* cv2.medianBlur(gray, 3): median of the 3x3 neighbourhood, the border    *)
(* replicated.                                                             *)
(***************************************************************************)
Median9(im, i, j) ==
    LET nb == {<<di, dj>> : di \in {-1, 0, 1}, dj \in {-1, 0, 1}}
        v(d) == PixelAt(im, i + d[1], j + d[2])
    IN  CHOOSE m \in {v(d) : d \in nb} :
            /\ Cardinality({d \in nb : v(d) < m}) <= 4
            /\ Cardinality({d \in nb : v(d) <= m}) >= 5

apply_median_filter(gray) ==
    [gray EXCEPT !.px = [k \in 1..Len(gray.px) |->
        Median9(gray, ((k - 1) \div gray.cols) + 1, ((k - 1) % gray.cols) + 1)]]

(***************************************************************************)
(* cv2.adaptiveThreshold(gray, 255, GAUSSIAN_C, THRESH_BINARY, 11, 2):     *)
(* a pixel is white iff it exceeds the Gaussian-weighted mean of its       *)
(* 11x11 neighbourhood (border replicated, sigma 2) minus 2.  The kernel   *)
(* is kept in hundredths.                                                  *)
(***************************************************************************)
BlockSize == 11
OffsetC == 2

GaussWeight(d) ==
    CASE Abs(d) = 0 -> 100
      [] Abs(d) = 1 -> 88
      [] Abs(d) = 2 -> 61
      [] Abs(d) = 3 -> 32
      [] Abs(d) = 4 -> 14
      [] OTHER -> 4

Radius == BlockSize \div 2

RECURSIVE RowWeight(_, _, _, _)
RowWeight(i, target, n, d) ==
    IF d > Radius THEN 0
    ELSE (IF Clamp(i + d, 1, n) = target THEN GaussWeight(d) ELSE 0)
           + RowWeight(i, target, n, d + 1)

RECURSIVE WeightedSum(_, _, _, _)
WeightedSum(im, i, j, k) ==
    IF k > Len(im.px) THEN 0
    ELSE LET ti == ((k - 1) \div im.cols) + 1
             tj == ((k - 1) % im.cols) + 1
         IN  im.px[k] * RowWeight(i, ti, im.rows, 0 - Radius)
                      * RowWeight(j, tj, im.cols, 0 - Radius)
               + WeightedSum(im, i, j, k + 1)

KernelSum == 498

GaussMean(im, i, j) ==
    (2 * WeightedSum(im, i, j, 1) + KernelSum * KernelSum)
        \div (2 * KernelSum * KernelSum)

apply_adaptive_threshold(gray) ==
    [gray EXCEPT !.px = [k \in 1..Len(gray.px) |->
        IF gray.px[k] > GaussMean(gray, ((k - 1) \div gray.cols) + 1,
                                        ((k - 1) % gray.cols) + 1) - OffsetC
        THEN 255 ELSE 0]]

(***************************************************************************)
(* Lines 70-80: the binarization selector.                                 *)
(***************************************************************************)
(* the manual flag tested before the algorithm *)
BinarizeManualFirst(gray, algorithm, manualThreshold, threshold) ==
    IF manualThreshold THEN threshold_binary(gray, threshold)
    ELSE IF algorithm = "adaptive" THEN apply_adaptive_threshold(gray)
    ELSE otsu_threshold(IF algorithm = "median-otsu"
                        THEN apply_median_filter(gray) ELSE gray)

Binarize(gray, algorithm, manualThreshold, threshold) ==
    IF algorithm = "adaptive"
    THEN apply_adaptive_threshold(gray)
    ELSE LET g == IF algorithm = "median-otsu"
                  THEN apply_median_filter(gray) ELSE gray
         IN  IF manualThreshold THEN threshold_binary(g, threshold)
             ELSE otsu_threshold(g)

(***************************************************************************)
(* Lines 82-86: polarity normalization.                                    *)
(***************************************************************************)
bitwise_not(im) ==
    [im EXCEPT !.px = [k \in 1..Len(im.px) |-> 255 - im.px[k]]]

(* the factor on the wrong side of the comparison *)
ShouldInvertHalf(black_pixels, white_pixels) == black_pixels * 2 > white_pixels

ShouldInvert(black_pixels, white_pixels) == black_pixels > white_pixels * 2

NormalizePolarity(processed) ==
    LET black_pixels == CountSeq(processed.px, 0)
        white_pixels == CountSeq(processed.px, 255)
    IN  IF ShouldInvert(black_pixels, white_pixels)
        THEN bitwise_not(processed) ELSE processed

(***************************************************************************)
(* SVG text.  DQ and SQ are the two quote characters, WS the whitespace    *)
(* tokens.                                                                 *)
(***************************************************************************)
DQ == "\""
SQ == "'"
WS == {" ", "\n"}
SizingNames == {"width", "height", "viewBox", "style"}

RECURSIVE FirstIndex(_, _, _)
FirstIndex(s, tok, from) ==
    IF from > Len(s) THEN 0
    ELSE IF s[from] = tok THEN from
    ELSE FirstIndex(s, tok, from + 1)

RECURSIVE FirstNonWS(_, _)
FirstNonWS(s, from) ==
    IF from > Len(s) THEN 0
    ELSE IF s[from] \notin WS THEN from
    ELSE FirstNonWS(s, from + 1)

(***************************************************************************)
(* re.search on svg_string (line 118): the leftmost "<svg" that is         *)
(* followed by a '>', up to the first such '>'.  0 when there is none.     *)
(***************************************************************************)
TagStart(s) ==
    LET i == FirstIndex(s, "<svg", 1)
    IN  IF i > 0 /\ FirstIndex(s, ">", i + 1) > 0 THEN i ELSE 0

TagEnd(s) == FirstIndex(s, ">", TagStart(s) + 1)

(***************************************************************************)
(* re.sub on attrs (line 121): whitespace, one of the four sizing names,   *)
(* '=', a double quote, and the text up to the next double quote.          *)
(* AttrMatchEnd is the last index of a match that starts at i, or 0.       *)
(***************************************************************************)
AttrMatchEnd(a, i) ==
    IF a[i] \notin WS THEN 0
    ELSE LET n == FirstNonWS(a, i)
         IN  IF /\ n > 0
                /\ n + 2 <= Len(a)
                /\ a[n] \in SizingNames
                /\ a[n + 1] = "="
                /\ a[n + 2] = DQ
             THEN FirstIndex(a, DQ, n + 3)
             ELSE 0

RECURSIVE StripSizing(_, _)
StripSizing(a, i) ==
    IF i > Len(a) THEN <<>>
    ELSE IF AttrMatchEnd(a, i) > 0
         THEN StripSizing(a, AttrMatchEnd(a, i) + 1)
         ELSE <<a[i]>> \o StripSizing(a, i + 1)

ViewBoxValue(width, height) ==
    "0 0 " \o ToString(width) \o " " \o ToString(height)

AttrDQ(name, value) == <<" ", name, "=", DQ, value, DQ>>

NewAttrs(width, height) ==
    AttrDQ("width", "100%") \o AttrDQ("height", "100%")
      \o AttrDQ("viewBox", ViewBoxValue(width, height))
      \o AttrDQ("preserveAspectRatio", "xMidYMid meet")
      \o AttrDQ("style", "display:block;margin:auto;")

NewTag(attrs, width, height) ==
    <<"<svg">> \o StripSizing(attrs, 1) \o NewAttrs(width, height) \o <<">">>

(***************************************************************************)
(* str.replace(old, new, 1): the first occurrence of old is replaced.      *)
(***************************************************************************)
RECURSIVE FirstOccurrence(_, _, _)
FirstOccurrence(s, old, from) ==
    IF from + Len(old) - 1 > Len(s) THEN 0
    ELSE IF SubSeq(s, from, from + Len(old) - 1) = old THEN from
    ELSE FirstOccurrence(s, old, from + 1)

(* str.replace without the count: every occurrence is replaced *)
RECURSIVE ReplaceAll(_, _, _)
ReplaceAll(s, old, new) ==
    LET k == FirstOccurrence(s, old, 1)
    IN  IF k = 0 THEN s
        ELSE SubSeq(s, 1, k - 1) \o new
               \o ReplaceAll(SubSeq(s, k + Len(old), Len(s)), old, new)

ReplaceFirst(s, old, new) ==
    LET k == FirstOccurrence(s, old, 1)
    IN  IF k = 0 THEN s
        ELSE SubSeq(s, 1, k - 1) \o new \o SubSeq(s, k + Len(old), Len(s))

(***************************************************************************)
(* Lines 118-123: the SVG responsiveness rewriter.                         *)
(***************************************************************************)
RewriteSvg(svg_string, width, height) ==
    IF TagStart(svg_string) > 0
    THEN LET group0 == SubSeq(svg_string, TagStart(svg_string),
                              TagEnd(svg_string))
             attrs  == SubSeq(svg_string, TagStart(svg_string) + 1,
                              TagEnd(svg_string) - 1)
         IN  ReplaceFirst(svg_string, group0, NewTag(attrs, width, height))
    ELSE svg_string

(***************************************************************************)
(* Uploads and form fields (lines 33-42).                                  *)
(***************************************************************************)
Upload(kind, rows, cols, chans, px) ==
    [kind |-> kind, rows |-> rows, cols |-> cols, chans |-> chans, px |-> px]

EmptyUpload == Upload("empty", 0, 0, 0, <<>>)
GarbageUpload == Upload("garbage", 0, 0, 0, <<>>)

Colours == {Black, White, Red}
Alphas == {127, 128}

PixelSeqs(n, chans) ==
    IF chans = 3 THEN [1..n -> Colours]
    ELSE [1..n -> {c \o <<a>> : c \in Colours, a \in Alphas}]

Shapes ==
    {d \in (1..MaxPixels) \X (1..MaxPixels) : d[1] * d[2] <= MaxPixels}

ImageUploads ==
    UNION {{Upload("image", d[1], d[2], chans, px) :
                px \in PixelSeqs(d[1] * d[2], chans)} :
           d \in Shapes, chans \in {3, 4}}

Algorithms == {"otsu", "median-otsu", "adaptive", "sobel"}
Thresholds == {0, 128, 255}

Form(valid, file, algorithm, manualThreshold, threshold) ==
    [valid |-> valid, file |-> file, algorithm |-> algorithm,
     manualThreshold |-> manualThreshold, threshold |-> threshold]

NoForm == Form("none", EmptyUpload, "otsu", FALSE, 128)

(* every valid form of the single-request pipeline *)
FullForms ==
    {Form("ok", f, a, m, t) :
        f \in {EmptyUpload, GarbageUpload} \cup ImageUploads,
        a \in Algorithms, m \in BOOLEAN, t \in Thresholds}

(* the forms of the concurrent deployment: the defaults with a blob or an *)
(* image, and the two ways a form fails validation                         *)
WhiteUpload == Upload("image", 2, 1, 3, <<White, White>>)
MixedUpload == Upload("image", 1, 2, 3, <<Black, White>>)

SmallForms ==
    {Form("ok", f, "otsu", FALSE, 128) :
        f \in {GarbageUpload, MixedUpload}}
    \cup {Form("missing_file", EmptyUpload, "otsu", FALSE, 128),
          Form("bad_field", WhiteUpload, "otsu", FALSE, 128)}

(***************************************************************************)
(* Responses.  by and of record which request's vectorizer call wrote the  *)
(* text that was read and whose raster that call had traced; complete is   *)
(* FALSE for a file read while it was being written.                       *)
(***************************************************************************)
Response(status, kind, error, svgString, width, height, by, of, complete) ==
    [status |-> status, kind |-> kind, error |-> error,
     svgString |-> svgString, width |-> width, height |-> height,
     by |-> by, of |-> of, complete |-> complete]

NoResponse == Response(0, "none", "", <<>>, 0, 0, 0, 0, FALSE)

(* a return {"error": ...} of the handler (lines 58, 91, 108) *)
ErrorPayload(msg) == Response(200, "error", msg, <<>>, 0, 0, 0, 0, FALSE)

(* an exception that escapes the handler: the framework answers 500 *)
OnExceptionUncaught(msg) ==
    Response(500, "unhandled", msg, <<>>, 0, 0, 0, 0, FALSE)

(* lines 130-133: any Exception becomes an error payload *)
OnException(msg) == ErrorPayload(msg)

(* the framework rejects a form that fails validation (lines 33-42) *)
ValidationError == Response(422, "validation", "", <<>>, 0, 0, 0, 0, FALSE)

(* lines 125-129 *)
SuccessPayload(svg_string, width, height, by, of, complete) ==
    Response(200, "success", "", svg_string, width, height, by, of, complete)

(***************************************************************************)
(* The two fixed temp files (lines 47-49).                                 *)
(***************************************************************************)
InputFile(exists, data, of, complete) ==
    [exists |-> exists, data |-> data, of |-> of, complete |-> complete]

OutputFile(exists, text, by, of, complete) ==
    [exists |-> exists, text |-> text, by |-> by, of |-> of,
     complete |-> complete]

NoInputFile == InputFile(FALSE, NoImage, 0, FALSE)
NoOutputFile == OutputFile(FALSE, <<>>, 0, 0, FALSE)

(***************************************************************************)
(* The SVG text the vectorizer writes for a raster.                        *)
(***************************************************************************)
SvgText(attrs) ==
    <<"<?xml", ">", "<svg">> \o AttrDQ("version", "1.1") \o attrs
        \o <<">", "<path/", ">", "</svg", ">">>

AttrSQ(name, value) == <<" ", name, "=", SQ, value, SQ>>

StandardSvg(data) ==
    SvgText(AttrDQ("width", ToString(data.cols))
              \o AttrDQ("height", ToString(data.rows)))

VtTextsSmall(data) == {StandardSvg(data)}

VtTextsFull(data) ==
    {StandardSvg(data), <<"<?xml", ">">>}
    \cup {SvgText(AttrDQ("width", "7") \o AttrDQ("height", "9")
                    \o AttrDQ("viewBox", "0 0 7 9")),
          SvgText(AttrSQ("viewBox", "0 0 7 9")),
          SvgText(<<>>)}

(***************************************************************************)
(* Locals of a handler invocation.                                         *)
(***************************************************************************)
Locals(img, gray, processed, vt_of, vt_text) ==
    [img |-> img, gray |-> gray, processed |-> processed,
     vt_of |-> vt_of, vt_text |-> vt_text]

NoLocals == Locals(NoImage, NoImage, NoImage, 0, <<>>)

(***************************************************************************)
(* Scheduling.  A worker's event loop runs one handler at a time and       *)
(* switches only where the handler awaits: line 53.                        *)
(***************************************************************************)
(* the vectorizer call awaited, as if it ran in a thread pool *)
SuspendsAtVtracer(p) == p \in {"await_read", "vt_read"}

(* an await between the vectorizer call and the check of its output *)
SuspendsAtExists(p) == p \in {"await_read", "exists"}

SuspendsAt(p) == p = "await_read"

MayRun(r) == running[worker[r]] \in {0, r}

Yield(r, p) ==
    running' = [running EXCEPT ![worker[r]] =
                   IF SuspendsAt(p) \/ p = "done" THEN 0 ELSE r]

(* the steps between opening temp_input and reading temp_output *)
Window == {"write_input", "vt_read", "vt_create", "vt_write", "exists",
           "read_output"}

Touch(r) ==
    interfered' = [q \in Requests |->
                     IF q # r /\ pc[q] \in Window THEN TRUE
                     ELSE interfered[q]]

Finish(r, response) ==
    /\ pc' = [pc EXCEPT ![r] = "done"]
    /\ resp' = [resp EXCEPT ![r] = response]
    /\ Yield(r, "done")

Goto(r, p) ==
    /\ pc' = [pc EXCEPT ![r] = p]
    /\ Yield(r, p)
    /\ UNCHANGED resp

(***************************************************************************)
(* The handler, one action per step.  Forms is the set the request's form  *)
(* is drawn from.                                                          *)
(***************************************************************************)
HandlersIdle ==
    /\ pc = [r \in Requests |-> "idle"]
    /\ req = [r \in Requests |-> NoForm]
    /\ worker = [r \in Requests |-> 1]
    /\ running = [w \in Workers |-> 0]
    /\ loc = [r \in Requests |-> NoLocals]
    /\ temp_input = NoInputFile
    /\ temp_output = NoOutputFile
    /\ resp = [r \in Requests |-> NoResponse]
    /\ vtout = [r \in Requests |-> "none"]
    /\ interfered = [r \in Requests |-> FALSE]
    /\ serial = TRUE

Init ==
    /\ HandlersIdle
    /\ arg = <<>>
    /\ res = <<>>

(* A request reaches a worker; the framework validates the form and calls *)
(* the handler, which runs up to its first await (lines 32-53).  Workers  *)
(* are interchangeable and are numbered in the order they first receive a *)
(* request.                                                                *)
Arrive(r, Forms) ==
    /\ pc[r] = "idle"
    /\ \E w \in Workers, f \in Forms :
        /\ running[w] = 0
        /\ \A v \in 1..(w - 1) :
              \E q \in Requests : pc[q] # "idle" /\ worker[q] = v
        /\ worker' = [worker EXCEPT ![r] = w]
        /\ req' = [req EXCEPT ![r] = f]
        /\ IF f.valid = "ok"
           THEN /\ pc' = [pc EXCEPT ![r] = "await_read"]
                /\ UNCHANGED resp
           ELSE /\ pc' = [pc EXCEPT ![r] = "done"]
                /\ resp' = [resp EXCEPT ![r] = ValidationError]
    /\ serial' = (serial /\ \A q \in Requests \ {r} : pc[q] \in {"idle", "done"})
    /\ UNCHANGED <<running, loc, temp_input, temp_output, vtout, interfered,
                   arg, res>>

(* Lines 53-91: the upload is read, decoded and binarized.  cv2.imencode  *)
(* of an 8-bit single-channel raster succeeds, so line 91 is not reached.  *)
ReadUpload(r) ==
    /\ pc[r] = "await_read"
    /\ MayRun(r)
    /\ LET file == req[r].file
           img == separate_alpha(imdecode(file))
           gray == BGR2GRAY(img)
           processed == NormalizePolarity(
                            Binarize(gray, req[r].algorithm,
                                     req[r].manualThreshold, req[r].threshold))
       IN  IF imdecode_raises(file)
           THEN /\ Finish(r, OnException("imdecode"))
                /\ UNCHANGED loc
           ELSE IF imdecode(file) = NoImage
           THEN /\ Finish(r, ErrorPayload("Invalid image data"))
                /\ UNCHANGED loc
           ELSE /\ Goto(r, "open_input")
                /\ loc' = [loc EXCEPT ![r] =
                             Locals(img, gray, processed, 0, <<>>)]
    /\ UNCHANGED <<req, worker, temp_input, temp_output, vtout, interfered,
                   serial, arg, res>>

(* Line 93: open(temp_input, "wb") truncates the file. *)
OpenInput(r) ==
    /\ pc[r] = "open_input"
    /\ MayRun(r)
    /\ temp_input' = InputFile(TRUE, NoImage, r, FALSE)
    /\ Touch(r)
    /\ Goto(r, "write_input")
    /\ UNCHANGED <<req, worker, loc, temp_output, vtout, serial, arg, res>>

(* Line 94: f.write(buffer) and the close of the with block. *)
f_write(old, buffer, r) == InputFile(TRUE, buffer, r, TRUE)

WriteInput(r) ==
    /\ pc[r] = "write_input"
    /\ MayRun(r)
    /\ temp_input' = f_write(temp_input, loc[r].processed, r)
    /\ Touch(r)
    /\ Goto(r, "vt_read")
    /\ UNCHANGED <<req, worker, loc, temp_output, vtout, serial, arg, res>>

(* Lines 98-105: the vectorizer reads temp_input.  It raises on a file it *)
(* cannot decode; otherwise it writes an SVG, writes nothing, or raises   *)
(* (which covers int(turdsize) and int(alphamax * 60) raising).            *)
VtRead(r, full) ==
    /\ pc[r] = "vt_read"
    /\ MayRun(r)
    /\ IF ~temp_input.complete
       THEN /\ Finish(r, OnException("vtracer"))
            /\ vtout' = [vtout EXCEPT ![r] = "raise"]
            /\ UNCHANGED loc
       ELSE \/ /\ Finish(r, OnException("vtracer"))
               /\ vtout' = [vtout EXCEPT ![r] = "raise"]
               /\ UNCHANGED loc
            \/ /\ Goto(r, "exists")
               /\ vtout' = [vtout EXCEPT ![r] = "nowrite"]
               /\ UNCHANGED loc
            \/ /\ \E text \in IF full THEN VtTextsFull(temp_input.data)
                              ELSE VtTextsSmall(temp_input.data) :
                     loc' = [loc EXCEPT ![r].vt_of = temp_input.of,
                                        ![r].vt_text = text]
               /\ Goto(r, "vt_create")
               /\ vtout' = [vtout EXCEPT ![r] = "write"]
    /\ UNCHANGED <<req, worker, temp_input, temp_output, interfered, serial,
                   arg, res>>

(* The vectorizer creates temp_output; a reader may see none or part of   *)
(* the text before the write completes.                                    *)
VtCreate(r) ==
    /\ pc[r] = "vt_create"
    /\ MayRun(r)
    /\ \E k \in {0, Len(loc[r].vt_text) \div 2} :
         temp_output' = OutputFile(TRUE, SubSeq(loc[r].vt_text, 1, k), r,
                                   loc[r].vt_of, FALSE)
    /\ Touch(r)
    /\ Goto(r, "vt_write")
    /\ UNCHANGED <<req, worker, loc, temp_input, vtout, serial, arg, res>>

VtWrite(r) ==
    /\ pc[r] = "vt_write"
    /\ MayRun(r)
    /\ temp_output' = OutputFile(TRUE, loc[r].vt_text, r, loc[r].vt_of, TRUE)
    /\ Touch(r)
    /\ Goto(r, "exists")
    /\ UNCHANGED <<req, worker, loc, temp_input, vtout, serial, arg, res>>

(* Lines 107-108. *)
CheckExists(r) ==
    /\ pc[r] = "exists"
    /\ MayRun(r)
    /\ IF temp_output.exists
       THEN Goto(r, "read_output")
       ELSE Finish(r, ErrorPayload("vtracer failed to generate SVG output"))
    /\ UNCHANGED <<req, worker, loc, temp_input, temp_output, vtout,
                   interfered, serial, arg, res>>

(* Lines 110-129: read temp_output, rewrite the tag, respond. *)
(* shape[0] and shape[1] exchanged *)
vectorize_resultSwapped(r, out) ==
    LET width == loc[r].img.rows
        height == loc[r].img.cols
    IN  SuccessPayload(RewriteSvg(out.text, width, height), width, height,
                       out.by, out.of, out.complete)

vectorize_result(r, out) ==
    LET width == loc[r].img.cols
        height == loc[r].img.rows
    IN  SuccessPayload(RewriteSvg(out.text, width, height), width, height,
                       out.by, out.of, out.complete)

ReadOutput(r) ==
    /\ pc[r] = "read_output"
    /\ MayRun(r)
    /\ Finish(r, vectorize_result(r, temp_output))
    /\ UNCHANGED <<req, worker, loc, temp_input, temp_output, vtout,
                   interfered, serial, arg, res>>

Step(r, full) ==
    \/ ReadUpload(r)
    \/ OpenInput(r)
    \/ WriteInput(r)
    \/ VtRead(r, full)
    \/ VtCreate(r)
    \/ VtWrite(r)
    \/ CheckExists(r)
    \/ ReadOutput(r)

(* several requests on several workers *)
Next == \E r \in Requests : Arrive(r, SmallForms) \/ Step(r, FALSE)

Spec == Init /\ [][Next]_vars

(* one request through the whole pipeline, every form *)
NextPipe == Arrive(1, FullForms) \/ Step(1, TRUE)

SpecPipe == Init /\ [][NextPipe]_vars

(***************************************************************************)
(* Polarity normalization applied to binary rasters, and applied again to  *)
(* its own output.                                                         *)
(***************************************************************************)
BinaryRasters ==
    UNION {{[rows |-> 1, cols |-> n, chans |-> 1, px |-> px] :
                px \in [1..n -> {0, 255}]} : n \in 1..MaxPolarityPixels}

InitPolarity ==
    /\ HandlersIdle
    /\ arg \in BinaryRasters
    /\ res = <<>>

ApplyNormalize ==
    /\ Len(res) < 2
    /\ res' = Append(res, NormalizePolarity(IF res = <<>> THEN arg
                                            ELSE res[Len(res)]))
    /\ UNCHANGED <<pc, req, worker, running, loc, temp_input, temp_output,
                   resp, vtout, interfered, serial, arg>>

NextPolarity == ApplyNormalize

SpecPolarity == InitPolarity /\ [][NextPolarity]_vars

(***************************************************************************)
(* The rewriter applied to SVG texts whose first tag carries up to         *)
(* MaxAttrs attributes, each written in one of four ways.                  *)
(***************************************************************************)
AttrNames == SizingNames \cup {"version", "stroke-width"}
AttrForms == {"dq", "sq", "spaced", "newline"}

RenderAttr(name, form) ==
    CASE form = "dq" -> <<" ", name, "=", DQ, "v", DQ>>
      [] form = "sq" -> <<" ", name, "=", SQ, "v", SQ>>
      [] form = "spaced" -> <<" ", name, " ", "=", " ", DQ, "v", DQ>>
      [] OTHER -> <<"\n", " ", name, "=", DQ, "v", DQ>>

RECURSIVE RenderAttrs(_)
RenderAttrs(l) ==
    IF l = <<>> THEN <<>>
    ELSE RenderAttr(Head(l)[1], Head(l)[2]) \o RenderAttrs(Tail(l))

AttrLists == UNION {[1..n -> AttrNames \X AttrForms] : n \in 0..MaxAttrs}

TextShapes == {"bare", "document", "twice", "truncated"}

ShapedText(l, shape) ==
    LET tag == <<"<svg">> \o RenderAttrs(l) \o <<">">>
    IN  CASE shape = "bare" -> tag
          [] shape = "document" ->
                <<"<?xml", ">", "<svg">> \o AttrDQ("width", "3")
                    \o RenderAttrs(l) \o <<">", "<path/", ">", "<svg">>
                    \o AttrDQ("width", "5")
                    \o <<">", "</svg", ">", "</svg", ">">>
          [] shape = "twice" ->
                tag \o <<"<path/", ">">> \o tag \o <<"</svg", ">">>
          [] OTHER -> <<"<?xml", ">", "<svg">> \o RenderAttrs(l)

RewriteInputs ==
    {[text |-> ShapedText(l, shape), width |-> 10, height |-> 20] :
        l \in AttrLists, shape \in TextShapes}

InitRewrite ==
    /\ HandlersIdle
    /\ arg \in RewriteInputs
    /\ res = <<>>

ApplyRewrite ==
    /\ res = <<>>
    /\ res' = <<RewriteSvg(arg.text, arg.width, arg.height)>>
    /\ UNCHANGED <<pc, req, worker, running, loc, temp_input, temp_output,
                   resp, vtout, interfered, serial, arg>>

NextRewrite == ApplyRewrite

SpecRewrite == InitRewrite /\ [][NextRewrite]_vars

(***************************************************************************)
(* Properties.                                                             *)
(***************************************************************************)
Done(r) == pc[r] = "done"

IsPayload(response) ==
    /\ response.status = 200
    /\ \/ response.kind = "success" /\ response.error = ""
       \/ /\ response.kind = "error"
          /\ response.error # ""
          /\ response.svgString = <<>>

Foreign(r) ==
    /\ resp[r].kind = "success"
    /\ resp[r].by # r \/ resp[r].of # r \/ ~resp[r].complete

(* C2: a request whose own vectorizer call wrote its output can still     *)
(* return another request's or a partial svg, and does so exactly through *)
(* a request on another worker that touched the temp files between this   *)
(* request's write of temp_input and its read of temp_output.              *)
C2_ForeignReadAcrossWorkers ==
    \A r \in Requests :
        (Done(r) /\ Foreign(r) /\ vtout[r] = "write") =>
            /\ interfered[r]
            /\ \E q \in Requests \ {r} :
                  pc[q] # "idle" /\ worker[q] # worker[r]

C2_Witness ==
    \E r \in Requests, q \in Requests :
        /\ q # r
        /\ Done(r)
        /\ vtout[r] = "write"
        /\ resp[r].kind = "success"
        /\ resp[r].by = q
        /\ worker[q] # worker[r]
        /\ interfered[r]

(* C3 as stated: among requests run one after another, a request whose    *)
(* vectorizer call wrote no output answers with the error "vtracer failed *)
(* to generate SVG output", and a success payload carries the svg traced  *)
(* from that request's own image.                                          *)
C3_NoStaleOutput ==
    \A r \in Requests :
        (Done(r) /\ serial) =>
            /\ vtout[r] = "nowrite" =>
                  resp[r] = ErrorPayload("vtracer failed to generate SVG output")
            /\ resp[r].kind = "success" =>
                  resp[r].by = r /\ resp[r].of = r

(* C10: two requests of one worker are never both between the resumption *)
(* after the upload is read and the response, and when every request runs *)
(* on one worker a request whose vectorizer call wrote its output returns *)
(* the complete svg traced from its own raster.                            *)
InFileSteps(r) == pc[r] \in {"open_input"} \cup Window

C10_NoInterleavingOnOneWorker ==
    /\ \A r \in Requests, q \in Requests :
          (r # q /\ InFileSteps(r) /\ InFileSteps(q)) => worker[r] # worker[q]
    /\ \A r \in Requests :
          (/\ Done(r)
           /\ vtout[r] = "write"
           /\ \A q \in Requests : pc[q] # "idle" => worker[q] = worker[r])
          => (resp[r].kind = "success" /\ ~Foreign(r))

C10_Witness ==
    \E r \in Requests, q \in Requests :
        /\ r # q
        /\ worker[r] = worker[q]
        /\ Done(q) /\ vtout[q] = "write"
        /\ Done(r) /\ vtout[r] = "write"
        /\ ~serial
        /\ resp[r].kind = "success" /\ resp[r].by = r /\ resp[r].of = r

(* the first <svg ...> tag of a text *)
FirstTag(s) == SubSeq(s, TagStart(s), TagEnd(s))

HasAttr(tag, name, value) ==
    \E i \in 1..(Len(tag) - 5) : SubSeq(tag, i, i + 5) = AttrDQ(name, value)

(* C4 as stated: whatever sizing attributes the source tag carried and    *)
(* however they were written, the rewritten tag has exactly one width,    *)
(* one height, one viewBox and one style, with the new values.            *)
C4_OneOfEachSizingAttr ==
    (res # <<>> /\ TagStart(arg.text) > 0) =>
        /\ \A n \in SizingNames : CountSeq(FirstTag(res[1]), n) = 1
        /\ HasAttr(FirstTag(res[1]), "width", "100%")
        /\ HasAttr(FirstTag(res[1]), "height", "100%")
        /\ HasAttr(FirstTag(res[1]), "viewBox",
                   ViewBoxValue(arg.width, arg.height))
        /\ HasAttr(FirstTag(res[1]), "style", "display:block;margin:auto;")

OtherNames(tag) ==
    SelectSeq(tag, LAMBDA t : t \in (AttrNames \ SizingNames)
                                      \cup {"preserveAspectRatio"})

(* C9: the rewriter changes only the first <svg ...> tag: the text before *)
(* and after it, later tags included, is unchanged, the other attributes  *)
(* of the tag keep their order, and a text without a tag is returned as   *)
(* it is.                                                                  *)
C9_OnlyFirstTagChanges ==
    res # <<>> =>
        IF TagStart(arg.text) = 0 THEN res[1] = arg.text
        ELSE LET s == TagStart(arg.text)
                 e == TagEnd(arg.text)
                 e2 == TagEnd(res[1])
             IN  /\ TagStart(res[1]) = s
                 /\ SubSeq(res[1], 1, s - 1) = SubSeq(arg.text, 1, s - 1)
                 /\ SubSeq(res[1], e2 + 1, Len(res[1]))
                      = SubSeq(arg.text, e + 1, Len(arg.text))
                 /\ OtherNames(FirstTag(res[1]))
                      = OtherNames(FirstTag(arg.text))
                          \o <<"preserveAspectRatio">>

C9_Witness ==
    /\ res # <<>>
    /\ TagStart(arg.text) > 0
    /\ OtherNames(FirstTag(arg.text)) = <<"stroke-width", "version">>
    /\ CountSeq(FirstTag(arg.text), "width") = 1
    /\ CountSeq(FirstTag(res[1]), "width") = 1
    /\ TagStart(SubSeq(arg.text, TagEnd(arg.text) + 1, Len(arg.text))) > 0
    /\ res[1] # arg.text

(* C6: normalizing an already normalized raster changes nothing, and a    *)
(* raster that is 90% black or 90% white is white-majority after one      *)
(* pass.                                                                   *)
C6_PolarityIdempotent ==
    /\ Len(res) = 2 => res[2] = res[1]
    /\ (/\ Len(res) >= 1
        /\ \/ CountSeq(arg.px, 0) * 10 = Len(arg.px) * 9
           \/ CountSeq(arg.px, 255) * 10 = Len(arg.px) * 9)
       => CountSeq(res[1].px, 255) > CountSeq(res[1].px, 0)

C6_Witness ==
    /\ Len(res) = 2
    /\ Len(arg.px) = 10
    /\ CountSeq(arg.px, 0) = 9
    /\ res[1] = bitwise_not(arg)
    /\ res[2] = res[1]

(* C5 as stated: in an upload with an alpha channel a pixel with alpha    *)
(* below 128 is white before the grayscale conversion, and a pixel with   *)
(* alpha of 128 or more keeps its colour.                                  *)
C5_TransparentPixelsWhite ==
    (pc[1] = "open_input" /\ req[1].file.chans = 4) =>
        \A k \in 1..Len(req[1].file.px) :
            IF req[1].file.px[k][4] < 128
            THEN loc[1].img.px[k] = White /\ loc[1].gray.px[k] = 255
            ELSE loc[1].img.px[k] = SubSeq(req[1].file.px[k], 1, 3)

(* C7: with algorithm "adaptive" the raster handed to the vectorizer is   *)
(* the same for every value of manualThreshold and threshold.              *)
C7_AdaptiveIgnoresThreshold ==
    (pc[1] = "open_input" /\ req[1].algorithm = "adaptive") =>
        \A m \in BOOLEAN, t \in Thresholds :
            /\ Binarize(loc[1].gray, "adaptive", m, t)
                 = apply_adaptive_threshold(loc[1].gray)
            /\ NormalizePolarity(Binarize(loc[1].gray, "adaptive", m, t))
                 = loc[1].processed

C7_Witness ==
    /\ pc[1] = "open_input"
    /\ req[1].algorithm = "adaptive"
    /\ req[1].manualThreshold
    /\ req[1].threshold = 255
    /\ loc[1].processed.px = <<0, 255>>
    /\ loc[1].processed # NormalizePolarity(threshold_binary(loc[1].gray, 255))

(* C8 as stated: every success payload has the decoded image's columns    *)
(* and rows as width and height, and the svg's tag has the viewBox        *)
(* "0 0 width height".                                                     *)
C8_DimensionsAndViewBox ==
    (Done(1) /\ resp[1].kind = "success") =>
        /\ resp[1].width = req[1].file.cols
        /\ resp[1].height = req[1].file.rows
        /\ TagStart(resp[1].svgString) > 0
        /\ HasAttr(FirstTag(resp[1].svgString), "viewBox",
                   ViewBoxValue(req[1].file.cols, req[1].file.rows))

(* C8 amended: every success payload has the decoded image's columns and  *)
(* rows as width and height, for every algorithm, and when the returned   *)
(* text has an <svg ...> tag the first one carries the viewBox            *)
(* "0 0 width height".                                                     *)
C8_DimensionsAndViewBoxWhenTagged ==
    (Done(1) /\ resp[1].kind = "success") =>
        /\ resp[1].width = req[1].file.cols
        /\ resp[1].height = req[1].file.rows
        /\ TagStart(resp[1].svgString) > 0 =>
              HasAttr(FirstTag(resp[1].svgString), "viewBox",
                      ViewBoxValue(req[1].file.cols, req[1].file.rows))

C8_Witness ==
    /\ Done(1)
    /\ resp[1].kind = "success"
    /\ req[1].algorithm = "median-otsu"
    /\ req[1].file.px = <<White, White>>
    /\ req[1].file.rows = 2
    /\ HasAttr(loc[1].vt_text, "viewBox", "0 0 7 9")
    /\ resp[1].width = 1 /\ resp[1].height = 2
    /\ HasAttr(FirstTag(resp[1].svgString), "viewBox", "0 0 1 2")
    /\ CountSeq(FirstTag(resp[1].svgString), "viewBox") = 1

====
